---------------------------- MODULE Spec2Model ----------------------------
(***************************************************************************)
(* Model of src/app.py: the Streamlit image analyzer.  One script run is   *)
(* started by each user interaction (choosing a file, pressing the         *)
(* Analyze button); the run executes lines 107-235 from top to bottom and  *)
(* ends at the end of the script, at st.stop() or at an uncaught           *)
(* exception.  Credentials are present (lines 96-98 passed).               *)
(*                                                                         *)
(* Text is a sequence of one-character strings, so that str.split,         *)
(* str.join, str.strip, str.title and the float formats are computed       *)
(* character by character as Python computes them.                         *)
(***************************************************************************)
EXTENDS Integers, Sequences, FiniteSets, TLC

(***************************************************************************)
(* Bounds of the model.                                                    *)
(***************************************************************************)
\* longest objects / tags sequence the remote service returns here
MaxItems == 7
\* longest caption text, in words
MaxCaptionWords == 95

(***************************************************************************)
(* Program constants.                                                      *)
(***************************************************************************)
\* objects[:5], tags[:5]
NarrativeItems == 5
\* if len(words) > 100 ... words[:100]
WordCap == 100
\* requests.post(..., timeout=30)
TIMEOUT == 30
\* if response.status_code != 200
HTTP_OK == 200

(***************************************************************************)
(* Characters.                                                             *)
(***************************************************************************)
Lower == <<"a","b","c","d","e","f","g","h","i","j","k","l","m",
           "n","o","p","q","r","s","t","u","v","w","x","y","z">>
Upper == <<"A","B","C","D","E","F","G","H","I","J","K","L","M",
           "N","O","P","Q","R","S","T","U","V","W","X","Y","Z">>
DigitChars == <<"0","1","2","3","4","5","6","7","8","9">>

Range(f) == {f[i] : i \in DOMAIN f}

\* the characters str.split() and str.strip() treat as whitespace
Whitespace == {" ", "\t", "\n"}

IsLower(c) == c \in Range(Lower)
IsUpper(c) == c \in Range(Upper)
IsCased(c) == IsLower(c) \/ IsUpper(c)

IndexOf(c, table) == CHOOSE i \in DOMAIN table : table[i] = c

\* str.upper() / str.lower() of one character
ToUpper(c) == IF IsLower(c) THEN Upper[IndexOf(c, Lower)] ELSE c
ToLower(c) == IF IsUpper(c) THEN Lower[IndexOf(c, Upper)] ELSE c

(***************************************************************************)
(* Python string operations.                                               *)
(***************************************************************************)
Min(a, b) == IF a <= b THEN a ELSE b

\* seq[:n]
Take(seq, n) == SubSeq(seq, 1, Min(n, Len(seq)))

\* sep.join(parts); the list is halved so that the evaluation stays shallow
RECURSIVE Join(_, _)
Join(sep, parts) ==
    IF parts = <<>> THEN <<>>
    ELSE IF Len(parts) = 1 THEN parts[1]
    ELSE LET half == Len(parts) \div 2
         IN  Join(sep, SubSeq(parts, 1, half)) \o sep
             \o Join(sep, SubSeq(parts, half + 1, Len(parts)))

\* a word of s starts at i: a non-whitespace character after whitespace or
\* at the start
WordStart(s, i) ==
    /\ s[i] \notin Whitespace
    /\ i = 1 \/ s[i - 1] \in Whitespace

\* the last character of the word that starts at i
WordEnd(s, i) ==
    CHOOSE j \in i..Len(s) : j = Len(s) \/ s[j + 1] \in Whitespace

\* the words of s that start in lo..hi, in order
RECURSIVE WordsIn(_, _, _)
WordsIn(s, lo, hi) ==
    IF lo > hi THEN <<>>
    ELSE IF lo = hi
    THEN IF WordStart(s, lo) THEN <<SubSeq(s, lo, WordEnd(s, lo))>> ELSE <<>>
    ELSE LET mid == (lo + hi) \div 2
         IN  WordsIn(s, lo, mid) \o WordsIn(s, mid + 1, hi)

\* s.split(): the maximal runs of non-whitespace characters
Split(s) == WordsIn(s, 1, Len(s))

\* s.strip(): leading and trailing whitespace removed
Strip(s) ==
    LET keep == {i \in 1..Len(s) : s[i] \notin Whitespace}
    IN  IF keep = {} THEN <<>>
        ELSE LET lo == CHOOSE i \in keep : \A j \in keep : i <= j
                 hi == CHOOSE i \in keep : \A j \in keep : j <= i
             IN  SubSeq(s, lo, hi)

\* s.title(): a cased character is upper-cased when the character before it
\* is not cased (or there is none), lower-cased otherwise
Title(s) ==
    [i \in 1..Len(s) |->
        IF ~IsCased(s[i]) THEN s[i]
        ELSE IF i > 1 /\ IsCased(s[i - 1]) THEN ToLower(s[i])
        ELSE ToUpper(s[i])]

(***************************************************************************)
(* Confidences and their formats.  A confidence k stands for the fraction  *)
(* k / ConfScale, so confidence * 100 is k / 100 percent.  The float       *)
(* formats round to nearest; when the decimal value lies exactly halfway   *)
(* between two outputs, the binary double nearest to it decides, which the *)
(* model leaves open: fp[k] says whether that double rounds upward.        *)
(***************************************************************************)
ConfScale == 100 * 100

\* str(n) for a natural number
RECURSIVE DigitsOf(_)
DigitsOf(n) ==
    IF n < 10 THEN <<DigitChars[n + 1]>>
    ELSE Append(DigitsOf(n \div 10), DigitChars[(n % 10) + 1])

\* k / d rounded to the nearest integer, halfway cases decided by fp
RoundDiv(k, d, fp) ==
    LET q == k \div d
        r == k % d
    IN  IF 2 * r > d THEN q + 1
        ELSE IF 2 * r < d THEN q
        ELSE IF fp[k] THEN q + 1 ELSE q

\* Format1f with the digits after the first decimal cut off, not rounded
Format1fTruncated(k, fp) ==
    LET tenths == k \div 10
    IN  DigitsOf(tenths \div 10) \o <<".">> \o <<DigitChars[(tenths % 10) + 1]>>

\* f"{confidence*100:.1f}"
Format1f(k, fp) ==
    LET tenths == RoundDiv(k, 10, fp)
    IN  DigitsOf(tenths \div 10) \o <<".">> \o <<DigitChars[(tenths % 10) + 1]>>

\* f"{confidence*100:.0f}"
Format0f(k, fp) == DigitsOf(RoundDiv(k, 100, fp))

(***************************************************************************)
(* Python dictionaries are functions from keys; a key is absent when it is *)
(* not in the domain.                                                      *)
(***************************************************************************)
\* d.get(key, default)
Get(d, key, default) == IF key \in DOMAIN d THEN d[key] ELSE default

\* the value of d.get(key) for an absent key; only its truth value is read,
\* and it is false like that of the empty list
None == <<>>

\* the truth value of a list (or None)
Truthy(v) == v # <<>>

(***************************************************************************)
(* Inputs: uploaded files.  format "none" is bytes no decoder identifies;  *)
(* data "truncated" is a file whose header decodes and whose pixel data    *)
(* does not.  pixels names the picture the bytes hold.                     *)
(***************************************************************************)
Uploads ==
    { [src |-> "upload", format |-> "none", mode |-> "none",
       data |-> "garbage", pixels |-> 0],
      [src |-> "upload", format |-> "JPEG", mode |-> "RGB",
       data |-> "ok", pixels |-> 1],
      [src |-> "upload", format |-> "PNG", mode |-> "RGBA",
       data |-> "ok", pixels |-> 2],
      [src |-> "upload", format |-> "JPEG", mode |-> "L",
       data |-> "truncated", pixels |-> 3],
      [src |-> "upload", format |-> "PNG", mode |-> "P",
       data |-> "truncated", pixels |-> 4] }

(***************************************************************************)
(* Inputs: what the remote service answers.                                *)
(***************************************************************************)
ObjectPool ==
    << [object |-> <<"t","r","a","f","f","i","c"," ","l","i","g","h","t">>,
        confidence |-> 1250],
       [object |-> <<"c","a","t">>, confidence |-> 5000],
       [object |-> <<"t","-","s","h","i","r","t">>, confidence |-> 8725],
       [object |-> <<"i","P","h","o","n","e">>, confidence |-> 8730],
       [object |-> <<"d","o","g">>, confidence |-> 8736],
       [object |-> <<"v","a","n">>, confidence |-> 9100],
       [object |-> <<"j","e","e","p">>, confidence |-> 9550],
       [object |-> <<"f","e","z">>, confidence |-> 9996],
       [object |-> <<"q","u","a","d">>, confidence |-> 10000],
       [object |-> <<"k","a","y","a","k">>, confidence |-> 4] >>

TagPool ==
    << [name |-> <<"a","n","i","m","a","l">>, confidence |-> 9900],
       [name |-> <<"i","n","d","o","o","r">>, confidence |-> 7700],
       [name |-> <<"p","e","t">>, confidence |-> 8730],
       [name |-> <<"s","o","f","a">>, confidence |-> 8750],
       [name |-> <<"g","r","a","s","s">>, confidence |-> 8649],
       [name |-> <<"s","k","y">>, confidence |-> 5051],
       [name |-> <<"r","o","a","d">>, confidence |-> 49],
       [name |-> <<"w","o","o","d">>, confidence |-> 0],
       [name |-> <<"p","d","f">>, confidence |-> 10000],
       [name |-> <<"m","u","g">>, confidence |-> 5449] >>

ObjectSeqs == {Take(ObjectPool, n) : n \in 0..MaxItems}
TagSeqs == {Take(TagPool, n) : n \in 0..MaxItems}

\* a caption text of n words: n - 1 times "a", then "nap"
LongText(n) ==
    Join(<<" ">>, [i \in 1..n |-> IF i = n THEN <<"n","a","p">> ELSE <<"a">>])

\* "a kitten on a chair"
ShortText ==
    <<"a"," ","k","i","t","t","e","n"," ","o","n"," ","a"," ","c","h","a","i","r">>
\* "a kitten  on\na chair": a double space and a line break inside
WideText ==
    <<"a"," ","k","i","t","t","e","n"," "," ","o","n","\n","a"," ","c","h","a","i","r">>
\* "a big lamp"
OtherText == <<"a"," ","b","i","g"," ","l","a","m","p">>

LongLengths == (MaxCaptionWords - 3)..MaxCaptionWords

\* a second caption, more confident than every first one
RunnerUp == [text |-> OtherText, confidence |-> 9900]

CaptionSeqs ==
    { <<>>,
      <<[text |-> ShortText, confidence |-> 9100]>>,
      <<[text |-> WideText, confidence |-> 8730]>>,
      <<[text |-> ShortText, confidence |-> 8725], RunnerUp>>,
      <<[text |-> OtherText, confidence |-> 18], RunnerUp,
        [text |-> ShortText, confidence |-> 10000]>> }
    \cup { <<[text |-> LongText(n), confidence |-> 8730]>> : n \in LongLengths }
    \cup { <<[text |-> <<"a"," "," ">> \o LongText(MaxCaptionWords - 1),
              confidence |-> 5000], RunnerUp>> }

\* the "description" member: absent, present without captions, or with them
Descriptions ==
    { <<>>, "description" :> ("tags" :> <<>>) }
    \cup { "description" :> ("captions" :> c) : c \in CaptionSeqs }

\* the parsed JSON bodies of the 200 responses
Results ==
    { d @@ o @@ t :
        d \in Descriptions,
        o \in {<<>>} \cup {"objects" :> s : s \in ObjectSeqs},
        t \in {<<>>} \cup {"tags" :> s : s \in TagSeqs} }

\* the scenario of section 8 of the specification
ExampleResult ==
    [description |->
        [captions |-> <<[text |-> <<"a"," ","c","a","t"," ","s","i","t","t","i",
                                   "n","g"," ","o","n"," ","a"," ","c","h","a",
                                   "i","r">>,
                         confidence |-> 9100]>>],
     objects |-> <<[object |-> <<"c","a","t">>, confidence |-> 9500],
                   [object |-> <<"c","h","a","i","r">>, confidence |-> 8000]>>,
     tags |-> <<[name |-> <<"a","n","i","m","a","l">>, confidence |-> 9900],
                [name |-> <<"f","u","r","n","i","t","u","r","e">>,
                 confidence |-> 7700]>>]

\* response.text of the answers whose status is not 200
ErrorBodies ==
    { <<>>,
      <<"B","a","d"," ","R","e","q","u","e","s","t">>,
      <<"{","e","r","r","o","r",":","4","0","1","}">> }

\* the responses requests.post can return
Responses ==
    { [status_code |-> HTTP_OK, text |-> <<"{","}">>, parses |-> TRUE, json |-> r] :
        r \in Results \cup {ExampleResult} }
    \cup { [status_code |-> HTTP_OK, text |-> <<"<","h","t","m","l",">">>,
            parses |-> FALSE, json |-> <<>>] }
    \cup { [status_code |-> s, text |-> b, parses |-> p, json |-> <<>>] :
            s \in {201, 400, 401, 500}, b \in ErrorBodies, p \in BOOLEAN }

(***************************************************************************)
(* The normalizer, lines 121-125.                                          *)
(***************************************************************************)
\* Image.open(uploaded_file) identifies the format from the header
Identified(file) == file.format # "none"

\* Image.load(), run by convert() and by st.image: decodes the pixel data
Loads(file) == file.data = "ok"

\* Reencode that passes an upload through when it is an RGB JPEG already
ReencodeUnlessJpeg(file) ==
    IF file.format = "JPEG" /\ file.mode = "RGB" THEN file
    ELSE [src |-> "save", format |-> "JPEG", mode |-> "RGB",
          data |-> "ok", pixels |-> file.pixels]

\* Image.open(uploaded_file).convert("RGB") saved as JPEG into a new buffer
Reencode(file) ==
    [src |-> "save", format |-> "JPEG", mode |-> "RGB",
     data |-> "ok", pixels |-> file.pixels]

(***************************************************************************)
(* The request, lines 127-140.                                             *)
(***************************************************************************)
Request(image_bytes) ==
    [method |-> "POST", path |-> "/vision/v3.2/analyze",
     visualFeatures |-> "Description,Objects,Tags",
     content_type |-> "application/octet-stream",
     data |-> image_bytes, timeout |-> TIMEOUT]

(***************************************************************************)
(* The description section, lines 149-196.                                 *)
(***************************************************************************)
\* result.get("description", {}).get("captions")
Captions(result) == Get(Get(result, "description", <<>>), "captions", None)

\* "Confidence: "
ConfidenceLabel == <<"C","o","n","f","i","d","e","n","c","e",":"," ">>

\* the main caption card, lines 156-161
CaptionCard(cap, fp) ==
    [h3 |-> cap.text,
     small |-> ConfidenceLabel \o Format1f(cap.confidence, fp) \o <<"%">>]

\* NarrativeObjects that ranks the objects by confidence before taking five
NarrativeObjectsByConfidence(result) ==
    LET all == Get(result, "objects", <<>>)
        ranked == [r \in 1..Len(all) |->
                      CHOOSE i \in 1..Len(all) :
                          Cardinality({j \in 1..Len(all) :
                              all[j].confidence > all[i].confidence}) = r - 1]
    IN  Take([r \in 1..Len(all) |-> all[ranked[r]].object], NarrativeItems)

\* objects = [o["object"] for o in result.get("objects", [])][:5]
NarrativeObjects(result) ==
    LET all == Get(result, "objects", <<>>)
    IN  Take([i \in 1..Len(all) |-> all[i].object], NarrativeItems)

\* tags = [t["name"] for t in result.get("tags", [])][:5]
NarrativeTags(result) ==
    LET all == Get(result, "tags", <<>>)
    IN  Take([i \in 1..Len(all) |-> all[i].name], NarrativeItems)

\* "It seems to show "
ItSeemsToShow ==
    <<"I","t"," ","s","e","e","m","s"," ","t","o"," ","s","h","o","w"," ">>
\* "The scene relates to "
TheSceneRelatesTo ==
    <<"T","h","e"," ","s","c","e","n","e"," ","r","e","l","a","t","e","s"," ",
      "t","o"," ">>
\* "The AI thinks this image is about "
TheAIThinks ==
    <<"T","h","e"," ","A","I"," ","t","h","i","n","k","s"," ","t","h","i","s",
      " ","i","m","a","g","e"," ","i","s"," ","a","b","o","u","t"," ">>

\* DetailsParts with the tags clause appended before the objects clause
DetailsPartsTagsFirst(objects, tags) ==
    (IF Truthy(tags)
     THEN <<TheSceneRelatesTo \o Join(<<",", " ">>, tags)>> ELSE <<>>)
    \o
    (IF Truthy(objects)
     THEN <<ItSeemsToShow \o Join(<<",", " ">>, objects)>> ELSE <<>>)

\* details_parts, lines 168-176
DetailsParts(objects, tags) ==
    (IF Truthy(objects)
     THEN <<ItSeemsToShow \o Join(<<",", " ">>, objects)>> ELSE <<>>)
    \o
    (IF Truthy(tags)
     THEN <<TheSceneRelatesTo \o Join(<<",", " ">>, tags)>> ELSE <<>>)

\* base_sentence, line 178
BaseSentence(cap) == TheAIThinks \o cap.text \o <<".">>

\* extra_sentence, lines 179-181
ExtraSentence(details_parts) ==
    IF Truthy(details_parts)
    THEN <<" ">> \o Join(<<".", " ">>, details_parts) \o <<".">>
    ELSE <<>>

\* paragraph = (base_sentence + extra_sentence).strip(), line 183
Assembled(cap, objects, tags) ==
    Strip(BaseSentence(cap) \o ExtraSentence(DetailsParts(objects, tags)))

\* CapWords that cuts a paragraph of exactly WordCap words as well
CapWordsAtLeast(paragraph) ==
    LET words == Split(paragraph)
    IN  IF Len(words) >= WordCap
        THEN Join(<<" ">>, Take(words, WordCap)) \o <<".", ".", ".">>
        ELSE paragraph

\* the hard cap, lines 185-187
CapWords(paragraph) ==
    LET words == Split(paragraph)
    IN  IF Len(words) > WordCap
        THEN Join(<<" ">>, Take(words, WordCap)) \o <<".", ".", ".">>
        ELSE paragraph

\* Cap that picks the caption with the highest confidence
CapMostConfident(result) ==
    LET caps == Captions(result)
    IN  caps[CHOOSE i \in 1..Len(caps) :
                \A j \in 1..Len(caps) : caps[j].confidence <= caps[i].confidence]

\* cap = result["description"]["captions"][0]
Cap(result) == Captions(result)[1]

\* the paragraph shown under "Summary (within 100 words)", lines 164-193
Paragraph(result) ==
    CapWords(Assembled(Cap(result), NarrativeObjects(result),
                       NarrativeTags(result)))

(***************************************************************************)
(* The object and tag sections, lines 199-231.                             *)
(***************************************************************************)
\* one object card, lines 206-211
ObjectCard(obj, fp) ==
    [strong |-> Title(obj.object),
     small |-> ConfidenceLabel \o Format1f(obj.confidence, fp) \o <<"%">>]

\* ObjectCards that lists the objects of the narrative only
ObjectCardsFirstFive(result, fp) ==
    LET all == Take(Get(result, "objects", None), NarrativeItems)
    IN  [i \in 1..Len(all) |-> ObjectCard(all[i], fp)]

\* the cards of "for i, obj in enumerate(result["objects"])"
ObjectCards(result, fp) ==
    LET all == Get(result, "objects", None)
    IN  [i \in 1..Len(all) |-> ObjectCard(all[i], fp)]

\* one tag chip: {tag['name']} ({tag['confidence']*100:.0f}%)
TagChip(tag, fp) ==
    tag.name \o <<" ", "(">> \o Format0f(tag.confidence, fp) \o <<"%", ")">>

\* the chips appended to tags_html by "for tag in result["tags"]"
TagChips(result, fp) ==
    LET all == Get(result, "tags", None)
    IN  [i \in 1..Len(all) |-> TagChip(all[i], fp)]

\* the confidences of a result that lie halfway between two outputs of the
\* format applied to them
Halfway(result) ==
    LET caps == Captions(result)
        objs == Get(result, "objects", <<>>)
        tgs == Get(result, "tags", <<>>)
    IN  {k \in {caps[i].confidence : i \in 1..Min(1, Len(caps))}
               \cup {objs[i].confidence : i \in 1..Len(objs)} : k % 10 = 5}
        \cup {k \in {tgs[i].confidence : i \in 1..Len(tgs)} : k % 100 = 50}

(***************************************************************************)
(* State.                                                                  *)
(***************************************************************************)
VARIABLES
    pc,             \* where the current script run stands; "idle" between runs
    uploaded_file,  \* <<>> or <<the file in the uploader>>
    clicked,        \* st.button(...) is true in this run
    button_shown,   \* the page shows the Analyze button (line 117 was reached)
    image_bytes,    \* <<>> or <<buf.getvalue()>>
    requests_sent,  \* the requests this run has issued
    response,       \* <<>> or <<the response of requests.post>>
    result,         \* <<>> or <<response.json()>>
    exception,      \* the uncaught exception that ended the run, or "none"
    error,          \* <<>> or <<the text given to st.error>>
    caption_card,   \* <<>> or <<the main caption card>>
    summary,        \* <<>> or <<the paragraph shown>>
    object_cards,   \* the object cards shown
    tags_html,      \* the tag chips shown
    warnings        \* the st.warning messages shown

vars == <<pc, uploaded_file, clicked, button_shown, image_bytes, requests_sent,
          response, result, exception, error, caption_card, summary,
          object_cards, tags_html, warnings>>

page == <<error, caption_card, summary, object_cards, tags_html, warnings>>
locals == <<image_bytes, requests_sent, response, result>>

NoDescription == "No description detected"
NoObjects == "No objects detected"
NoTags == "No tags detected"

Init ==
    /\ pc = "idle"
    /\ uploaded_file = <<>>
    /\ clicked = FALSE
    /\ button_shown = FALSE
    /\ image_bytes = <<>>
    /\ requests_sent = <<>>
    /\ response = <<>>
    /\ result = <<>>
    /\ exception = "none"
    /\ error = <<>>
    /\ caption_card = <<>>
    /\ summary = <<>>
    /\ object_cards = <<>>
    /\ tags_html = <<>>
    /\ warnings = {}

\* a script run starts: fresh locals, an empty page
StartRun ==
    /\ button_shown' = FALSE
    /\ image_bytes' = <<>>
    /\ requests_sent' = <<>>
    /\ response' = <<>>
    /\ result' = <<>>
    /\ exception' = "none"
    /\ error' = <<>>
    /\ caption_card' = <<>>
    /\ summary' = <<>>
    /\ object_cards' = <<>>
    /\ tags_html' = <<>>
    /\ warnings' = {}

\* an exception nothing catches ends the run; Streamlit shows it
Raise(e) ==
    /\ exception' = e
    /\ pc' = "idle"

(***************************************************************************)
(* The user.                                                               *)
(***************************************************************************)
\* the user puts a file into the uploader (line 101): the script reruns
ChooseFile ==
    /\ pc = "idle"
    /\ \E f \in Uploads : uploaded_file' = <<f>>
    /\ clicked' = FALSE
    /\ pc' = "open"
    /\ StartRun

\* the user removes the file: the rerun skips "if uploaded_file:" (line 107)
ClearFile ==
    /\ pc = "idle"
    /\ uploaded_file # <<>>
    /\ uploaded_file' = <<>>
    /\ clicked' = FALSE
    /\ pc' = "idle"
    /\ StartRun

\* the user presses "Analyze Image" (line 117): the script reruns
ClickAnalyze ==
    /\ pc = "idle"
    /\ button_shown
    /\ clicked' = TRUE
    /\ pc' = "open"
    /\ StartRun
    /\ UNCHANGED uploaded_file

(***************************************************************************)
(* The script.                                                             *)
(***************************************************************************)
\* image = Image.open(uploaded_file), line 108
OpenPreview ==
    /\ pc = "open"
    /\ IF Identified(uploaded_file[1])
       THEN pc' = "show" /\ UNCHANGED exception
       ELSE Raise("UnidentifiedImageError")
    /\ UNCHANGED <<uploaded_file, clicked, button_shown, locals, page>>

\* st.image(image), line 111, decodes the pixel data of a truncated file
\* or leaves that to convert()
PreviewFails ==
    /\ pc = "show"
    /\ ~Loads(uploaded_file[1])
    /\ Raise("OSError")
    /\ UNCHANGED <<uploaded_file, clicked, button_shown, locals, page>>

\* lines 110-117: the preview and the button
ShowPreview ==
    /\ pc = "show"
    /\ button_shown' = TRUE
    /\ pc' = IF clicked THEN "normalize" ELSE "idle"
    /\ UNCHANGED <<uploaded_file, clicked, exception, locals, page>>

\* Normalize that swallows the decoding error and sends the upload as it is
NormalizeSwallow ==
    /\ pc = "normalize"
    /\ image_bytes' = IF Loads(uploaded_file[1])
                      THEN <<Reencode(uploaded_file[1])>>
                      ELSE uploaded_file
    /\ pc' = "post"
    /\ UNCHANGED <<uploaded_file, clicked, button_shown, requests_sent,
                   response, result, exception, page>>

\* lines 121-125
Normalize ==
    /\ pc = "normalize"
    /\ IF Loads(uploaded_file[1])
       THEN /\ image_bytes' = <<Reencode(uploaded_file[1])>>
            /\ pc' = "post"
            /\ UNCHANGED exception
       ELSE /\ Raise("OSError")
            /\ UNCHANGED image_bytes
    /\ UNCHANGED <<uploaded_file, clicked, button_shown, requests_sent,
                   response, result, page>>

\* requests.post(...) sends the request, lines 134-140, and blocks
SendRequest ==
    /\ pc = "post"
    /\ requests_sent' = Append(requests_sent, Request(image_bytes[1]))
    /\ pc' = "wait"
    /\ UNCHANGED <<uploaded_file, clicked, button_shown, image_bytes, response,
                   result, exception, page>>

\* requests.post returns a response
ReceiveResponse ==
    /\ pc = "wait"
    /\ \E r \in Responses : response' = <<r>>
    /\ pc' = "check"
    /\ UNCHANGED <<uploaded_file, clicked, button_shown, image_bytes,
                   requests_sent, result, exception, page>>

\* RequestFails that issues the request again instead of raising
RequestFailsRetry ==
    /\ pc = "wait"
    /\ pc' = "post"
    /\ UNCHANGED <<uploaded_file, clicked, button_shown, locals, exception,
                   page>>

\* requests.post raises: no answer within the timeout, or no connection
RequestFails ==
    /\ pc = "wait"
    /\ \E e \in {"Timeout", "ConnectionError"} : Raise(e)
    /\ UNCHANGED <<uploaded_file, clicked, button_shown, locals, page>>

\* CheckStatus without st.stop(): the run goes on to response.json()
CheckStatusNoStop ==
    /\ pc = "check"
    /\ error' = IF response[1].status_code # HTTP_OK
                THEN <<response[1].text>> ELSE <<>>
    /\ IF response[1].parses
       THEN /\ result' = <<response[1].json>>
            /\ pc' = "describe"
            /\ UNCHANGED exception
       ELSE /\ Raise("JSONDecodeError")
            /\ UNCHANGED result
    /\ UNCHANGED <<uploaded_file, clicked, button_shown, image_bytes,
                   requests_sent, response, caption_card, summary,
                   object_cards, tags_html, warnings>>

\* lines 142-146
CheckStatus ==
    /\ pc = "check"
    /\ IF response[1].status_code # HTTP_OK
       THEN /\ error' = <<response[1].text>>
            /\ pc' = "idle"
            /\ UNCHANGED <<result, exception>>
       ELSE IF response[1].parses
       THEN /\ result' = <<response[1].json>>
            /\ pc' = "describe"
            /\ UNCHANGED <<error, exception>>
       ELSE /\ Raise("JSONDecodeError")
            /\ UNCHANGED <<error, result>>
    /\ UNCHANGED <<uploaded_file, clicked, button_shown, image_bytes,
                   requests_sent, response, caption_card, summary,
                   object_cards, tags_html, warnings>>

\* lines 149-235: the three sections, to the end of the script
Summarize ==
    /\ pc = "describe"
    /\ \E fp \in [Halfway(result[1]) -> BOOLEAN] :
        LET r == result[1]
            described == Truthy(Captions(r))
            objs == Truthy(Get(r, "objects", None))
            tgs == Truthy(Get(r, "tags", None))
        IN  /\ caption_card' = IF described THEN <<CaptionCard(Cap(r), fp)>>
                               ELSE <<>>
            /\ summary' = IF described THEN <<Paragraph(r)>> ELSE <<>>
            /\ object_cards' = IF objs THEN ObjectCards(r, fp) ELSE <<>>
            /\ tags_html' = IF tgs THEN TagChips(r, fp) ELSE <<>>
            /\ warnings' = (IF described THEN {} ELSE {NoDescription})
                           \cup (IF objs THEN {} ELSE {NoObjects})
                           \cup (IF tgs THEN {} ELSE {NoTags})
    /\ pc' = "idle"
    /\ UNCHANGED <<uploaded_file, clicked, button_shown, locals, exception,
                   error>>

Next ==
    \/ ChooseFile
    \/ ClearFile
    \/ ClickAnalyze
    \/ OpenPreview
    \/ PreviewFails
    \/ ShowPreview
    \/ Normalize
    \/ SendRequest
    \/ ReceiveResponse
    \/ RequestFails
    \/ CheckStatus
    \/ Summarize

Spec == Init /\ [][Next]_vars

(***************************************************************************)
(* Vocabulary of the properties.                                           *)
(***************************************************************************)
\* no summary view on the page: no caption, paragraph, object or tag listing
NoViews ==
    /\ caption_card = <<>>
    /\ summary = <<>>
    /\ object_cards = <<>>
    /\ tags_html = <<>>
    /\ warnings = {}

\* the three sections of this run have been rendered
Summarized == result # <<>> /\ pc = "idle"

\* the caption branch was taken for the result of this run
Described == Summarized /\ Len(Captions(result[1])) >= 1

\* the full sequences of the result, empty when absent
AllObjects == Get(result[1], "objects", <<>>)
AllTags == Get(result[1], "tags", <<>>)

\* pat occurs in s at position i
OccursAt(pat, s, i) ==
    /\ i + Len(pat) - 1 <= Len(s)
    /\ \A j \in 1..Len(pat) : s[i + j - 1] = pat[j]

Occurs(pat, s) == \E i \in 1..Len(s) : OccursAt(pat, s, i)

\* the first position at which pat occurs in s
FirstAt(pat, s) == CHOOSE i \in 1..Len(s) : OccursAt(pat, s, i)

IsPrefix(pre, s) == Len(pre) <= Len(s) /\ OccursAt(pre, s, 1)

IsSuffix(suf, s) ==
    Len(suf) <= Len(s) /\ OccursAt(suf, s, Len(s) - Len(suf) + 1)

Ellipsis == <<".", ".", ".">>

\* the number of whitespace-delimited words of s
WordCount(s) == Cardinality({i \in 1..Len(s) : WordStart(s, i)})

\* a percentage with one decimal: t tenths of a percent
OneDecimal(t) == DigitsOf(t \div 10) \o <<".">> \o DigitsOf(t % 10)

\* text renders the fraction k / ConfScale as a percentage with one decimal
\* place, off by at most half a unit of that place
IsOneDecimalPercent(text, k) ==
    \E t \in (k \div 10)..(k \div 10 + 1) :
        /\ text = OneDecimal(t) \o <<"%">>
        /\ 10 * t - k <= 5
        /\ k - 10 * t <= 5

\* text renders the fraction k / ConfScale as an integer percentage, off by
\* at most half a percent
IsIntegerPercent(text, k) ==
    \E q \in (k \div 100)..(k \div 100 + 1) :
        /\ text = DigitsOf(q) \o <<"%">>
        /\ 100 * q - k <= 50
        /\ k - 100 * q <= 50

\* s without its first n characters
Drop(s, n) == SubSeq(s, n + 1, Len(s))

(***************************************************************************)
(* C1: when the response's status is not 200, the run stops right after    *)
(* showing the response body as the error: the error text is exactly the   *)
(* body, the body is never parsed, and no summary view is on the page.     *)
(***************************************************************************)
C1_Non200Aborts ==
    (response # <<>> /\ response[1].status_code # 200) =>
        /\ NoViews
        /\ result = <<>>
        /\ exception = "none"
        /\ \/ pc = "check" /\ error = <<>>
           \/ pc = "idle" /\ error = <<response[1].text>>

C1_Witness ==
    /\ pc = "idle"
    /\ response # <<>>
    /\ response[1].status_code = 401
    /\ error = <<<<"B","a","d"," ","R","e","q","u","e","s","t">>>>

\* the bytes of file do not decode as an image
Undecodable(file) == file.format = "none" \/ file.data # "ok"

(***************************************************************************)
(* C2: a file that cannot be decoded never yields a normalized buffer, a   *)
(* request or a summary view; an Analyze run on it ends with the decode    *)
(* error raised, and bytes no decoder identifies raise it in every run.    *)
(***************************************************************************)
C2_UndecodableFails ==
    (uploaded_file # <<>> /\ Undecodable(uploaded_file[1])) =>
        /\ image_bytes = <<>>
        /\ requests_sent = <<>>
        /\ response = <<>>
        /\ NoViews
        /\ pc \in {"open", "show", "normalize", "idle"}
        /\ (pc = "idle" /\ clicked) => exception = "OSError"
        /\ (pc = "idle" /\ ~Identified(uploaded_file[1])) =>
                exception = "UnidentifiedImageError"

C2_Witness ==
    /\ pc = "idle"
    /\ uploaded_file # <<>>
    /\ uploaded_file[1].data = "truncated"
    /\ clicked
    /\ button_shown
    /\ exception = "OSError"

\* requests.post raised instead of returning a response
CallFailed == exception \in {"Timeout", "ConnectionError"}

(***************************************************************************)
(* C3: when the call ends without a response (timeout, network failure),   *)
(* the run ends there with the error raised, nothing is summarized, and    *)
(* exactly the one request has been sent: no retry.                        *)
(***************************************************************************)
C3_RequestFailureAborts ==
    /\ [](CallFailed =>
            /\ pc = "idle"
            /\ NoViews
            /\ result = <<>>
            /\ response = <<>>
            /\ Len(requests_sent) = 1)
    /\ [][(pc = "wait" /\ pc' # "wait" /\ response' = <<>>) =>
            (pc' = "idle" /\ CallFailed' /\ requests_sent' = requests_sent)]_vars

C3_Witness ==
    /\ exception = "Timeout"
    /\ Len(requests_sent) = 1
    /\ requests_sent[1].timeout = 30

(***************************************************************************)
(* C4: with captions, the caption card and the base sentence come from     *)
(* captions[0] whatever the other captions' confidences; with no captions  *)
(* (empty or absent description) the run completes with the explicit       *)
(* no-description state and no paragraph.                                  *)
(***************************************************************************)
C4_FirstCaption ==
    Summarized =>
        LET caps == Captions(result[1])
        IN  IF Len(caps) >= 1
            THEN /\ Len(caption_card) = 1
                 /\ caption_card[1].h3 = caps[1].text
                 /\ IsPrefix(ConfidenceLabel, caption_card[1].small)
                 /\ IsOneDecimalPercent(
                        Drop(caption_card[1].small, Len(ConfidenceLabel)),
                        caps[1].confidence)
                 /\ Len(summary) = 1
                 /\ LET base == Split(TheAIThinks \o caps[1].text \o <<".">>)
                        n == Min(Len(base), WordCap - 1)
                    IN  Take(Split(summary[1]), n) = Take(base, n)
                 /\ NoDescription \notin warnings
            ELSE /\ caption_card = <<>>
                 /\ summary = <<>>
                 /\ NoDescription \in warnings
                 /\ exception = "none"

C4_Witness ==
    /\ Summarized
    /\ Len(Captions(result[1])) = 3
    /\ Captions(result[1])[1].confidence < Captions(result[1])[3].confidence
    /\ caption_card[1].h3 = OtherText
    /\ IsPrefix(TheAIThinks \o OtherText \o <<".">>, summary[1])

\* the names, in order, are mentioned in text as the claim says
FirstFiveInOrder(names, text) ==
    /\ \A j \in 1..Len(names) : j > 5 => ~Occurs(names[j], text)
    /\ \A j \in 1..Len(names) : Occurs(names[j], text) =>
            \A i \in 1..(j - 1) :
                Occurs(names[i], text)
                /\ FirstAt(names[i], text) < FirstAt(names[j], text)
    /\ ~IsSuffix(Ellipsis, text) =>
            \A j \in 1..Min(5, Len(names)) : Occurs(names[j], text)

(***************************************************************************)
(* C5: the paragraph mentions no object label and no tag name from index 5 *)
(* on; those it mentions are the first ones, in input order; when the      *)
(* paragraph is not cut by the word cap it mentions each of the first      *)
(* min(5, length).                                                         *)
(***************************************************************************)
C5_NarrativeFirstFive ==
    Described =>
        /\ FirstFiveInOrder([i \in 1..Len(AllObjects) |-> AllObjects[i].object],
                            summary[1])
        /\ FirstFiveInOrder([i \in 1..Len(AllTags) |-> AllTags[i].name],
                            summary[1])

C5_Witness ==
    /\ Described
    /\ Len(AllObjects) > 5
    /\ Len(AllTags) > 5
    /\ ~IsSuffix(Ellipsis, summary[1])
    /\ Occurs(AllObjects[5].object, summary[1])
    /\ Occurs(AllTags[5].name, summary[1])

AssembledNow ==
    Assembled(Cap(result[1]), NarrativeObjects(result[1]),
              NarrativeTags(result[1]))

(***************************************************************************)
(* C6: with more than 100 words assembled, the paragraph shown is the      *)
(* first 100 words, single-spaced, followed by "...", and counts exactly   *)
(* 100 words; with 100 words or fewer it is the assembled paragraph as it  *)
(* is, without the ellipsis.                                               *)
(***************************************************************************)
C6_WordCap ==
    Described =>
        LET assembled == AssembledNow
            first == Split(assembled)
            shown == summary[1]
        IN  IF Len(first) > 100
            THEN /\ IsSuffix(Ellipsis, shown)
                 /\ WordCount(shown) = 100
                 /\ LET kept == SubSeq(shown, 1, Len(shown) - 3)
                    IN  /\ Split(kept) = SubSeq(first, 1, 100)
                        /\ \A i \in 1..Len(kept) :
                              kept[i] \in Whitespace =>
                                  /\ kept[i] = " "
                                  /\ i > 1 /\ i < Len(kept)
                                  /\ kept[i + 1] \notin Whitespace
            ELSE /\ shown = assembled
                 /\ ~IsSuffix(Ellipsis, shown)

C6_Witness ==
    /\ Described
    /\ WordCount(AssembledNow) = 101
    /\ WordCount(summary[1]) = 100
    /\ IsSuffix(Ellipsis, summary[1])

\* the names separated by ", ", built from the left
RECURSIVE CommaList(_)
CommaList(names) ==
    IF Len(names) = 0 THEN <<>>
    ELSE IF Len(names) = 1 THEN names[1]
    ELSE CommaList(SubSeq(names, 1, Len(names) - 1))
         \o <<",", " ">> \o names[Len(names)]

\* one more sentence after the base sentence, or nothing when names is empty
Sentence(opening, names) ==
    IF Len(names) = 0 THEN <<>>
    ELSE <<" ">> \o opening \o <<" ">> \o CommaList(names) \o <<".">>

\* the paragraph the claim describes for the result of this run
ClaimedParagraph ==
    LET labels == [i \in 1..Min(5, Len(AllObjects)) |-> AllObjects[i].object]
        names == [i \in 1..Min(5, Len(AllTags)) |-> AllTags[i].name]
    IN  TheAIThinks \o Captions(result[1])[1].text \o <<".">>
        \o Sentence(<<"I","t"," ","s","e","e","m","s"," ","t","o"," ",
                      "s","h","o","w">>, labels)
        \o Sentence(<<"T","h","e"," ","s","c","e","n","e"," ","r","e","l",
                      "a","t","e","s"," ","t","o">>, names)

\* "The AI thinks this image is about a cat sitting on a chair. It seems to
\* show cat, chair. The scene relates to animal, furniture."
ExampleParagraph ==
    <<"T","h","e"," ","A","I"," ","t","h","i","n","k","s"," ","t","h","i","s",
      " ","i","m","a","g","e"," ","i","s"," ","a","b","o","u","t"," ","a"," ",
      "c","a","t"," ","s","i","t","t","i","n","g"," ","o","n"," ","a"," ","c",
      "h","a","i","r","."," ","I","t"," ","s","e","e","m","s"," ","t","o"," ",
      "s","h","o","w"," ","c","a","t",","," ","c","h","a","i","r","."," ","T",
      "h","e"," ","s","c","e","n","e"," ","r","e","l","a","t","e","s"," ","t",
      "o"," ","a","n","i","m","a","l",","," ","f","u","r","n","i","t","u","r",
      "e",".">>

IsExample ==
    /\ Len(AllObjects) = 2
    /\ AllObjects[2].object = <<"c","h","a","i","r">>

(***************************************************************************)
(* C7: the uncapped paragraph is the base sentence, then the objects       *)
(* sentence if objects were taken, then the tags sentence if tags were     *)
(* taken, each sentence closed by a period and separated from the one      *)
(* before by one space; an absent clause leaves nothing behind.            *)
(***************************************************************************)
C7_NarrativeComposition ==
    Described =>
        LET claimed == ClaimedParagraph
            words == Split(claimed)
        IN  /\ AssembledNow = claimed
            /\ Len(words) <= 100 => summary[1] = claimed
            /\ Len(words) > 100 =>
                  SubSeq(Split(summary[1]), 1, 99) = SubSeq(words, 1, 99)
            /\ IsExample => summary[1] = ExampleParagraph

C7_Witness ==
    /\ Described
    /\ Len(AllObjects) = 2
    /\ Len(AllTags) = 2
    /\ summary[1] = ExampleParagraph

\* shown is label with the first letter of every run of letters in upper
\* case and the other letters in lower case
IsTitleCased(shown, label) ==
    /\ Len(shown) = Len(label)
    /\ \A i \in 1..Len(label) :
          /\ ToLower(shown[i]) = ToLower(label[i])
          /\ IsCased(label[i]) =>
                IF i = 1 \/ ~IsCased(label[i - 1])
                THEN IsUpper(shown[i]) ELSE IsLower(shown[i])

(***************************************************************************)
(* C8: the object listing has one card per element of the full objects     *)
(* sequence, in order, each with the title-cased label; the tag listing    *)
(* one chip per element of the full tags sequence, in order; each listing  *)
(* is the none-detected warning exactly when its sequence is empty or      *)
(* absent, whether or not there is a caption.                              *)
(***************************************************************************)
C8_ListingViews ==
    Summarized =>
        /\ Len(object_cards) = Len(AllObjects)
        /\ \A i \in 1..Len(AllObjects) :
              IsTitleCased(object_cards[i].strong, AllObjects[i].object)
        /\ Len(AllObjects) >= 1 =>
              (AllObjects[1].object =
                   <<"t","r","a","f","f","i","c"," ","l","i","g","h","t">>
               => object_cards[1].strong =
                   <<"T","r","a","f","f","i","c"," ","L","i","g","h","t">>)
        /\ Len(AllObjects) >= 4 =>
              /\ object_cards[3].strong = <<"T","-","S","h","i","r","t">>
              /\ object_cards[4].strong = <<"I","p","h","o","n","e">>
        /\ (NoObjects \in warnings) <=> (Len(AllObjects) = 0)
        /\ Len(tags_html) = Len(AllTags)
        /\ \A i \in 1..Len(AllTags) :
              IsPrefix(AllTags[i].name \o <<" ", "(">>, tags_html[i])
        /\ (NoTags \in warnings) <=> (Len(AllTags) = 0)

C8_Witness ==
    /\ Summarized
    /\ ~Described
    /\ Len(object_cards) > 5
    /\ Len(tags_html) > 5
    /\ "objects" \in DOMAIN result[1]

(***************************************************************************)
(* C9: a confidence is rendered as a percentage of the fraction, with one  *)
(* decimal place on the caption card and the object cards and as an        *)
(* integer on the tag chips: 0.873 gives 87.3% and 87%.                    *)
(***************************************************************************)
C9_ConfidenceRendering ==
    Summarized =>
        /\ \A i \in 1..Len(caption_card) :
              /\ IsPrefix(ConfidenceLabel, caption_card[i].small)
              /\ IsOneDecimalPercent(
                     Drop(caption_card[i].small, Len(ConfidenceLabel)),
                     Captions(result[1])[1].confidence)
              /\ Captions(result[1])[1].confidence = 8730 =>
                     caption_card[i].small =
                         ConfidenceLabel \o <<"8","7",".","3","%">>
              /\ Captions(result[1])[1].confidence = 9100 =>
                     caption_card[i].small =
                         ConfidenceLabel \o <<"9","1",".","0","%">>
        /\ \A i \in 1..Len(object_cards) :
              /\ IsPrefix(ConfidenceLabel, object_cards[i].small)
              /\ IsOneDecimalPercent(
                     Drop(object_cards[i].small, Len(ConfidenceLabel)),
                     AllObjects[i].confidence)
              /\ AllObjects[i].confidence = 8730 =>
                     object_cards[i].small =
                         ConfidenceLabel \o <<"8","7",".","3","%">>
        /\ \A i \in 1..Len(tags_html) :
              /\ IsSuffix(<<")">>, tags_html[i])
              /\ IsIntegerPercent(
                     SubSeq(tags_html[i], Len(AllTags[i].name) + 3,
                            Len(tags_html[i]) - 1),
                     AllTags[i].confidence)
              /\ AllTags[i].confidence = 8730 =>
                     tags_html[i] =
                         AllTags[i].name \o <<" ","(","8","7","%",")">>

C9_Witness ==
    /\ Described
    /\ Captions(result[1])[1].confidence = 8730
    /\ Len(AllObjects) >= 4
    /\ AllObjects[4].confidence = 8730
    /\ Len(AllTags) >= 3
    /\ AllTags[3].confidence = 8730
    /\ tags_html[3] = <<"p","e","t"," ","(","8","7","%",")">>

(***************************************************************************)
(* C10: in one run at most one request is sent, after normalization, and   *)
(* its body is the re-encoded RGB JPEG buffer of the uploaded picture,     *)
(* never the uploaded bytes; the sections are rendered only from the       *)
(* parsed body of a 200 response to that request.                          *)
(***************************************************************************)
C10_StageOrdering ==
    /\ Len(requests_sent) <= 1
    /\ image_bytes # <<>> =>
          /\ Loads(uploaded_file[1])
          /\ image_bytes[1].format = "JPEG"
          /\ image_bytes[1].mode = "RGB"
          /\ image_bytes[1].pixels = uploaded_file[1].pixels
          /\ image_bytes[1] # uploaded_file[1]
    /\ requests_sent # <<>> =>
          /\ image_bytes # <<>>
          /\ requests_sent[1].data = image_bytes[1]
          /\ requests_sent[1].method = "POST"
    /\ response # <<>> => Len(requests_sent) = 1
    /\ (pc = "describe" \/ result # <<>> \/ ~NoViews) =>
          /\ response # <<>>
          /\ response[1].status_code = 200
          /\ response[1].parses
          /\ Len(result) = 1
          /\ DOMAIN result[1] = DOMAIN response[1].json
          /\ Captions(result[1]) = Captions(response[1].json)

C10_Witness ==
    /\ Summarized
    /\ uploaded_file[1].format = "JPEG"
    /\ uploaded_file[1].mode = "RGB"
    /\ requests_sent[1].data.src = "save"
    /\ ~NoViews

=============================================================================
